---- MODULE Spec2Model ----
(***************************************************************************)
(* Model of the livestreamer supervisor (src/index.js, current revision,   *)
(* lines 260-562): configuration validation, destination composition,      *)
(* sequential startup (main), the encoder lifecycle handlers registered by *)
(* startStream, scheduleReconnect, the restart timer and the SIGINT        *)
(* handler.                                                                *)
(*                                                                         *)
(* Strings are sequences of one-character strings.  Fixed pieces of text   *)
(* of a log line are single opaque items (e.g. "Target: "), the value of   *)
(* a variable interpolated into the line is spliced in character by        *)
(* character, so "the line contains the key" is a real substring test.     *)
(* The timestamp prefix of a log line is left out.                         *)
(*                                                                         *)
(* The encoder (fluent-ffmpeg command) is an external process: an instance *)
(* is "spawning" after run(), "running" once it emitted 'start', and       *)
(* delivers exactly one terminal event ('error' or 'end') after its        *)
(* process is gone; kill() on a live instance makes it deliver 'error'.    *)
(***************************************************************************)
EXTENDS Integers, Sequences, FiniteSets, TLC

VARIABLES
    env,            \* process.env: WEBSITE_URL, RTMP_URL, RTMP_KEY
    pc,             \* position of the top-level script / main()
    fullUrl,        \* const FULL_RTMP_URL
    ffmpegCommand,  \* let ffmpegCommand: 0 = null, else the instance id
    browser,        \* let browser: FALSE = null, TRUE = launched handle
    connected,      \* browser.isConnected()
    xvfbProcess,    \* let xvfbProcess: FALSE = null, TRUE = spawned handle
    sink,           \* the daemon's VirtualSink: "none", "created" or "default"
    proc,           \* state of each ffmpeg() instance created by startStream
    nextId,         \* number of startStream calls so far
    timers,         \* pending setTimeout(startStream, RECONNECT_DELAY)
    closing,        \* SIGINT handlers suspended at await browser.close()
    exitCode,       \* -1 while the process runs, else the exit status
    logs,           \* the set of log lines written so far
    hist            \* observations of the run (not read by the program)

vars == <<env, pc, fullUrl, ffmpegCommand, browser, connected, xvfbProcess,
          sink, proc, nextId, timers, closing, exitCode, logs, hist>>

----------------------------------------------------------------------------
(* Bounds *)

\* startStream calls in one run
MaxStarts == 3
\* stop signals delivered in one run
MaxSigint == 2
\* length of the RTMP_URL / RTMP_KEY strings drawn for the configuration checks
MaxLen == 2

----------------------------------------------------------------------------
(* Strings *)

Undefined == <<"undefined">>

Sep == "/"

CfgChars == {Sep, "a"}

StringsUpTo(chars, n) == UNION {[1..m -> chars] : m \in 0..n}

EndsWith(s, c) == Len(s) > 0 /\ s[Len(s)] = c

Contains(line, s) ==
    \E i \in 1..(Len(line) - Len(s) + 1) : SubSeq(line, i, i + Len(s) - 1) = s

RECURSIVE Join(_)
\* missing.join(', ')
Join(names) ==
    IF Len(names) = 0 THEN <<>>
    ELSE IF Len(names) = 1 THEN <<names[1]>>
    ELSE <<names[1], ", ">> \o Join(Tail(names))

Log(type, msg) == [type |-> type, msg |-> msg]

----------------------------------------------------------------------------
(* Configuration: validateConfig and FULL_RTMP_URL *)

\* !x for a string or undefined
Falsy(x) == x = Undefined \/ x = <<>>

\* the mutant of Missing: stops at the first missing name
MissingFirstOnly(e) ==
    IF Falsy(e.WEBSITE_URL) THEN <<"WEBSITE_URL">>
    ELSE IF Falsy(e.RTMP_URL) THEN <<"RTMP_URL">>
    ELSE IF Falsy(e.RTMP_KEY) THEN <<"RTMP_KEY">>
    ELSE <<>>

Missing(e) ==
    (IF Falsy(e.WEBSITE_URL) THEN <<"WEBSITE_URL">> ELSE <<>>)
    \o (IF Falsy(e.RTMP_URL) THEN <<"RTMP_URL">> ELSE <<>>)
    \o (IF Falsy(e.RTMP_KEY) THEN <<"RTMP_KEY">> ELSE <<>>)

MissingLine(e) ==
    Log("ERROR", <<"Missing required environment variables: ">> \o Join(Missing(e)))

\* the mutants of FULL_RTMP_URL
ComposeNeverSep(url, key) == url \o key

ComposeAlwaysSep(url, key) == url \o <<Sep>> \o key

FULL_RTMP_URL(url, key) ==
    IF EndsWith(url, Sep) THEN url \o key ELSE url \o <<Sep>> \o key

----------------------------------------------------------------------------
(* Initial states *)

EnvValues(chars, n) == {Undefined} \cup StringsUpTo(chars, n)

\* environments of the supervisor runs
RunEnvs ==
    [WEBSITE_URL : {Undefined, <<>>, <<"w">>},
     RTMP_URL    : {Undefined, <<>>, <<"u">>, <<"u", Sep>>},
     RTMP_KEY    : {Undefined, <<>>, <<"k">>}]

\* environments of the configuration checks
CfgEnvs ==
    [WEBSITE_URL : {Undefined, <<>>, <<"w">>},
     RTMP_URL    : EnvValues(CfgChars, MaxLen),
     RTMP_KEY    : EnvValues(CfgChars, MaxLen)]

Ids == 1..MaxStarts

InitHist ==
    [killRequested |-> {},      \* instances kill() was called on
     evConn        |-> 0,       \* encoder events handled with isConnected() true
     evDisc        |-> FALSE,   \* an encoder event was handled with isConnected() false
     sigints       |-> 0,       \* stop signals received
     closeRejected |-> FALSE,   \* browser.close() rejected
     killThrew     |-> FALSE,   \* ffmpegCommand.kill() threw in the SIGINT handler
     xvfbKillTried |-> FALSE,   \* xvfbProcess.kill() was called
     steps         |-> <<>>,    \* the startup steps begun so far, in order
     failed        |-> {},      \* the startup steps that failed (threw, or reported an error)
     startupThrew  |-> FALSE,   \* an exception reached the catch block of main
     pipelines     |-> <<>>,    \* the video options of each encoder started, in order
     startedAfterStop |-> FALSE, \* startStream was called after SIGINT had arrived
     startedDisconnected |-> FALSE, \* startStream was called with the session disconnected
     exitCause     |-> "none"]

InitRest ==
    /\ pc = "validate"
    /\ fullUrl = Undefined
    /\ ffmpegCommand = 0
    /\ browser = FALSE
    /\ connected = FALSE
    /\ xvfbProcess = FALSE
    /\ sink = "none"
    /\ proc = [i \in Ids |-> "none"]
    /\ nextId = 0
    /\ timers = 0
    /\ closing = 0
    /\ exitCode = -1
    /\ logs = {}
    /\ hist = InitHist

Init == env \in RunEnvs /\ InitRest

InitConfig == env \in CfgEnvs /\ InitRest

Alive == exitCode = -1

\* process.exit(code)
Exit(code, cause) ==
    /\ exitCode' = code
    /\ hist' = [hist EXCEPT !.exitCause = cause]

----------------------------------------------------------------------------
(* Top-level script *)

\* validateConfig(), called at load time
ValidateConfig ==
    /\ Alive /\ pc = "validate"
    /\ IF Len(Missing(env)) > 0
       THEN /\ logs' = logs \cup {MissingLine(env)}
            /\ Exit(1, "config")
            /\ pc' = pc
       ELSE /\ pc' = "compose"
            /\ UNCHANGED <<logs, exitCode, hist>>
    /\ UNCHANGED <<env, fullUrl, ffmpegCommand, browser, connected, xvfbProcess, sink,
                   proc, nextId, timers, closing>>

\* const FULL_RTMP_URL = ...
ComposeUrl ==
    /\ Alive /\ pc = "compose"
    /\ fullUrl' = FULL_RTMP_URL(env.RTMP_URL, env.RTMP_KEY)
    /\ pc' = "main"
    /\ UNCHANGED <<env, ffmpegCommand, browser, connected, xvfbProcess, sink, proc,
                   nextId, timers, closing, exitCode, logs, hist>>

NextConfig == ValidateConfig \/ ComposeUrl

SpecConfig == InitConfig /\ [][NextConfig]_vars

----------------------------------------------------------------------------
(* main(): startXvfb, startBrowser, startStream, and the catch block *)

Begin(h, step) == [h EXCEPT !.steps = Append(@, step)]

Fail(h, step) == [h EXCEPT !.steps = Append(@, step), !.failed = @ \cup {step}]

\* the mutant of StartupFailure: the catch block logs and does not exit
StartupFailureNoExit(h) ==
    /\ logs' = logs \cup {Log("ERROR", <<"Fatal error during startup: ", "<err.message>">>)}
    /\ exitCode' = exitCode
    /\ hist' = [h EXCEPT !.startupThrew = TRUE]

\* catch (err) { log(...); process.exit(1); } of main
StartupFailure(h) ==
    /\ logs' = logs \cup {Log("ERROR", <<"Fatal error during startup: ", "<err.message>">>)}
    /\ exitCode' = 1
    /\ hist' = [h EXCEPT !.startupThrew = TRUE, !.exitCause = "startup"]

\* startXvfb up to its first await: the two log calls and
\* execSync('pulseaudio -k ...'), whose failure is caught and ignored
StartAudio ==
    /\ Alive /\ pc = "main"
    /\ logs' = logs \cup {Log("INFO", <<"Starting Xvfb...">>),
                          Log("INFO", <<"Starting PulseAudio...">>)}
    /\ \E ok \in BOOLEAN :
         hist' = IF ok THEN Begin(hist, "killDaemon") ELSE Fail(hist, "killDaemon")
    /\ pc' = "paSpawn"
    /\ UNCHANGED <<env, fullUrl, ffmpegCommand, browser, connected, xvfbProcess,
                   sink, proc, nextId, timers, closing, exitCode>>

\* startXvfb: const pa = spawn('pulseaudio', ...) and the 2 s wait.  "error"
\* is the child's 'error' event (logged by pa.on('error')); "throw" is spawn
\* throwing, which the outer catch logs, skipping the rest of the audio block
SpawnPulse ==
    /\ Alive /\ pc = "paSpawn"
    /\ \E out \in {"ok", "error", "throw"} :
         /\ logs' = logs \cup
               (CASE out = "ok"    -> {}
                  [] out = "error" -> {Log("ERROR", <<"PulseAudio spawn error: ", "<err.message>">>)}
                  [] out = "throw" -> {Log("ERROR", <<"PulseAudio setup failed: ", "<e.message>">>)})
         /\ hist' = IF out = "ok" THEN Begin(hist, "startDaemon")
                    ELSE Fail(hist, "startDaemon")
         /\ pc' = IF out = "throw" THEN "xvfb" ELSE "sink"
    /\ UNCHANGED <<env, fullUrl, ffmpegCommand, browser, connected, xvfbProcess,
                   sink, proc, nextId, timers, closing, exitCode>>

\* the mutant of CreateSink: the pactl call is outside any try block
CreateSinkUncaught ==
    /\ Alive /\ pc = "sink"
    /\ \E ok \in BOOLEAN :
         IF ok
         THEN /\ sink' = "created"
              /\ logs' = logs \cup {Log("SUCCESS", <<"Created VirtualSink">>)}
              /\ hist' = Begin(hist, "createSink")
              /\ pc' = "default"
              /\ exitCode' = exitCode
         ELSE /\ StartupFailure(Fail(hist, "createSink"))
              /\ UNCHANGED <<sink, pc>>
    /\ UNCHANGED <<env, fullUrl, ffmpegCommand, browser, connected, xvfbProcess,
                   proc, nextId, timers, closing>>

\* startXvfb: execSync('pactl load-module module-null-sink ...') in its own
\* try block, and the 500 ms wait
CreateSink ==
    /\ Alive /\ pc = "sink"
    /\ \E ok \in BOOLEAN :
         IF ok
         THEN /\ sink' = "created"
              /\ logs' = logs \cup {Log("SUCCESS", <<"Created VirtualSink">>)}
              /\ hist' = Begin(hist, "createSink")
         ELSE /\ sink' = sink
              /\ logs' = logs \cup {Log("WARN", <<"VirtualSink may already exist: ", "<e.message>">>)}
              /\ hist' = Fail(hist, "createSink")
    /\ pc' = "default"
    /\ UNCHANGED <<env, fullUrl, ffmpegCommand, browser, connected, xvfbProcess,
                   proc, nextId, timers, closing, exitCode>>

\* startXvfb: set-default-sink, set-sink-mute, set-sink-volume in one try
\* block, the listing of the sinks in another, and the closing log call
SetDefaultSink ==
    /\ Alive /\ pc = "default"
    /\ \E ok \in BOOLEAN, listed \in BOOLEAN :
         /\ sink' = IF ok THEN "default" ELSE sink
         /\ hist' = IF ok THEN Begin(hist, "setDefault") ELSE Fail(hist, "setDefault")
         /\ logs' = logs \cup
               {IF ok THEN Log("SUCCESS", <<"Set VirtualSink as default with 100% volume">>)
                      ELSE Log("WARN", <<"Failed to set default sink: ", "<e.message>">>),
                IF listed THEN Log("DEBUG", <<"Available sinks: ", "<sinks>">>)
                          ELSE Log("WARN", <<"Could not list sinks">>),
                Log("SUCCESS", <<"PulseAudio VirtualSink initialized.">>)}
    /\ pc' = "xvfb"
    /\ UNCHANGED <<env, fullUrl, ffmpegCommand, browser, connected, xvfbProcess,
                   proc, nextId, timers, closing, exitCode>>

\* startXvfb: xvfbProcess = spawn('Xvfb', ...), in the same turn as the end of
\* the audio block.  "error": the display server does not start, which
\* xvfbProcess.on('error') only logs; "throw": spawn throws, outside any try
\* block of startXvfb
SpawnXvfb ==
    /\ Alive /\ pc = "xvfb"
    /\ \E out \in {"ok", "error", "throw"} :
         IF out = "throw"
         THEN /\ StartupFailure(Fail(hist, "spawnXvfb"))
              /\ UNCHANGED <<xvfbProcess, pc>>
         ELSE /\ xvfbProcess' = TRUE
              /\ logs' = logs \cup
                    (IF out = "error"
                     THEN {Log("ERROR", <<"Xvfb error: ", "<err.message>">>)} ELSE {})
              /\ hist' = IF out = "ok" THEN Begin(hist, "spawnXvfb")
                         ELSE Fail(hist, "spawnXvfb")
              /\ pc' = "settle"
              /\ exitCode' = exitCode
    /\ UNCHANGED <<env, fullUrl, ffmpegCommand, browser, connected, sink, proc,
                   nextId, timers, closing>>

\* startXvfb returns after its 2 s wait; main calls startBrowser, which runs
\* to await puppeteer.launch(...)
XvfbSettled ==
    /\ Alive /\ pc = "settle"
    /\ logs' = logs \cup {Log("SUCCESS", <<"Xvfb started on display :99">>),
                          Log("INFO", <<"Launching Puppeteer for ">> \o env.WEBSITE_URL \o <<"...">>)}
    /\ pc' = "launch"
    /\ hist' = Begin(hist, "xvfbReady")
    /\ UNCHANGED <<env, fullUrl, ffmpegCommand, browser, connected, xvfbProcess,
                   sink, proc, nextId, timers, closing, exitCode>>

\* the mutant of LaunchReady: main does not await startXvfb
LaunchReadyNoAwait == pc \in {"paSpawn", "launch"}

\* main: await startXvfb(); await startBrowser();
LaunchReady == pc = "launch"

\* startBrowser: browser = await puppeteer.launch(...)
LaunchBrowser ==
    /\ Alive /\ LaunchReady
    /\ \E ok \in BOOLEAN :
         IF ok
         THEN /\ browser' = TRUE
              /\ connected' = TRUE
              /\ pc' = "newPage"
              /\ hist' = Begin(hist, "launch")
              /\ UNCHANGED <<exitCode, logs>>
         ELSE /\ StartupFailure(Fail(hist, "launch"))
              /\ UNCHANGED <<browser, connected, pc>>
    /\ UNCHANGED <<env, fullUrl, ffmpegCommand, xvfbProcess, sink, proc, nextId,
                   timers, closing>>

\* the mutant of PageSteps: the style injection moved before the click
PageStepsStyleFirst ==
    <<"newPage", "setCacheEnabled", "setUserAgent", "setViewport", "goto",
      "reload", "waitForNavigation", "settleWait", "addStyleTag", "click",
      "scrollBy">>

\* the awaited steps of startBrowser after the launch, in program order
PageSteps ==
    <<"newPage", "setCacheEnabled", "setUserAgent", "setViewport", "goto",
      "reload", "waitForNavigation", "settleWait", "click", "addStyleTag",
      "scrollBy">>

PageStepNames == {PageSteps[k] : k \in 1..Len(PageSteps)}

IndexOf(step) == CHOOSE k \in 1..Len(PageSteps) : PageSteps[k] = step

\* the position of main after a page step: the next step, or startStream
AfterStep(step) ==
    IF IndexOf(step) = Len(PageSteps) THEN "stream" ELSE PageSteps[IndexOf(step) + 1]

\* new Promise(r => setTimeout(r, 2000)) never rejects
CanFail(step) == step # "settleWait"

\* every step but the timed wait is a call to the session, which rejects once
\* the session is disconnected
NeedsSession(step) == step # "settleWait"

\* try { await page.mouse.click(...) } catch (e) { log('Click failed: ...') }
Caught(step) == step = "click"

\* the log call that follows a step that succeeded
StepLog(step) ==
    CASE step = "goto"              -> {Log("SUCCESS", <<"Page loaded.">>)}
      [] step = "waitForNavigation" -> {Log("SUCCESS", <<"Hard refresh completed.">>)}
      [] step = "click"             -> {Log("INFO", <<"Clicked center screen to trigger audio.">>)}
      [] step = "scrollBy"          -> {Log("INFO", <<"Scrolled down 210px.">>)}
      [] OTHER                      -> {}

\* startBrowser: one awaited step; a rejection outside the click's try block
\* propagates to the catch block of main
PageStep ==
    /\ Alive /\ pc \in PageStepNames
    /\ \E ok \in BOOLEAN :
         /\ (~ok => CanFail(pc))
         /\ (ok /\ NeedsSession(pc) => connected)
         /\ IF ok
            THEN /\ pc' = AfterStep(pc)
                 /\ logs' = logs \cup StepLog(pc)
                 /\ hist' = Begin(hist, pc)
                 /\ exitCode' = exitCode
            ELSE IF Caught(pc)
            THEN /\ pc' = AfterStep(pc)
                 /\ logs' = logs \cup {Log("WARN", <<"Click failed: ", "<e.message>">>)}
                 /\ hist' = Fail(hist, pc)
                 /\ exitCode' = exitCode
            ELSE /\ pc' = pc
                 /\ StartupFailure(Fail(hist, pc))
    /\ UNCHANGED <<env, fullUrl, ffmpegCommand, browser, connected, xvfbProcess,
                   sink, proc, nextId, timers, closing>>

\* the four log calls at the top of startStream
StartStreamLogs ==
    {Log("INFO", <<"Starting FFmpeg stream...">>),
     Log("INFO", <<"Source: X11 Display :99">>),
     Log("INFO", <<"Target: ">> \o env.RTMP_URL \o <<" (Key hidden)">>),
     Log("INFO", <<"Crop: top=150px, left=25px">>)}

\* the frame geometry and the crop settings
SCREEN_WIDTH == 1500

SCREEN_HEIGHT == 900

CROP_TOP == 150

CROP_BOTTOM == 80

CROP_LEFT == 25

\* the mutant of CropWidth: the left margin is not taken off the width
CropWidthFull(width, left) == width

\* const cropWidth = SCREEN_WIDTH - CROP_LEFT
CropWidth(width, left) == width - left

\* const cropHeight = SCREEN_HEIGHT - CROP_TOP - CROP_BOTTOM
CropHeight(height, top, bottom) == height - top - bottom

\* the video options startStream gives the encoder: the x11grab capture size
\* (-video_size WxH) and the filter crop=w:h:x:y,scale=W:H
VideoOptions ==
    [capture |-> [w |-> SCREEN_WIDTH, h |-> SCREEN_HEIGHT],
     crop    |-> [w |-> CropWidth(SCREEN_WIDTH, CROP_LEFT),
                  h |-> CropHeight(SCREEN_HEIGHT, CROP_TOP, CROP_BOTTOM),
                  x |-> CROP_LEFT,
                  y |-> CROP_TOP],
     scale   |-> [w |-> SCREEN_WIDTH, h |-> SCREEN_HEIGHT]]

\* startStream(): ffmpegCommand = ffmpeg()...; ffmpegCommand.run()
StartStream(h) ==
    /\ nextId < MaxStarts
    /\ hist' = [h EXCEPT !.pipelines = Append(@, VideoOptions),
                         !.startedAfterStop = @ \/ h.sigints > 0,
                         !.startedDisconnected = @ \/ (browser /\ ~connected)]
    /\ nextId' = nextId + 1
    /\ ffmpegCommand' = nextId + 1
    /\ proc' = [proc EXCEPT ![nextId + 1] = "spawning"]
    /\ logs' = logs \cup StartStreamLogs

\* main: startStream() after startBrowser resolved
MainStartStream ==
    /\ Alive /\ pc = "stream"
    /\ StartStream(Begin(hist, "startStream"))
    /\ pc' = "idle"
    /\ UNCHANGED <<env, fullUrl, browser, connected, xvfbProcess, sink, timers,
                   closing, exitCode>>

----------------------------------------------------------------------------
(* The encoder process and the handlers registered by startStream *)

Started(i) == proc[i] \in {"spawning", "running"}

\* the text of the 'start' event's argument: the ffmpeg command line, which
\* ends with the output given to .output(FULL_RTMP_URL)
CommandLine == <<"ffmpeg <options> ">> \o fullUrl

\* .on('start', cmd => ...)
EncoderStart(i) ==
    /\ Alive /\ proc[i] = "spawning"
    /\ proc' = [proc EXCEPT ![i] = "running"]
    /\ logs' = logs \cup {Log("SUCCESS", <<"Streaming started!">>),
                          Log("DEBUG", <<"Command: ">> \o CommandLine)}
    /\ UNCHANGED <<env, pc, fullUrl, ffmpegCommand, browser, connected,
                   xvfbProcess, sink, nextId, timers, closing, exitCode, hist>>

\* the ffmpeg process fails to spawn, fails, or ends on its own
EncoderStops(i) ==
    /\ Alive /\ Started(i)
    /\ \E ev \in {"pendError", "pendEnd"} :
         /\ (proc[i] = "spawning" => ev = "pendError")
         /\ proc' = [proc EXCEPT ![i] = ev]
    /\ UNCHANGED <<env, pc, fullUrl, ffmpegCommand, browser, connected,
                   xvfbProcess, sink, nextId, timers, closing, exitCode, logs, hist>>

\* ffmpegCommand.kill() on the instances in tgt: a running process is killed
\* and will report 'error'; on a command whose process is not spawned yet, or
\* is gone, kill() only warns; ok = FALSE is kill() throwing
KillEffect(p, tgt, ok) ==
    [i \in Ids |-> IF i \in tgt /\ ok /\ p[i] = "running"
                   THEN "pendError" ELSE p[i]]

\* the mutant of ReconnectKills: scheduleReconnect without the kill
ReconnectKillsNone(cmd) == {}

\* scheduleReconnect: if (ffmpegCommand) { try { ffmpegCommand.kill() } ... }
ReconnectKills(cmd) == IF cmd # 0 THEN {cmd} ELSE {}

\* the mutant of MustExit: the liveness check left out
MustExitNever(b, conn) == FALSE

\* scheduleReconnect: if (browser && !browser.isConnected())
MustExit(b, conn) == b /\ ~conn

\* the mutants of ReconnectTimers
ReconnectTimersTwice == 1 + 1

ReconnectTimersNone == 1 - 1

\* scheduleReconnect: setTimeout(startStream, RECONNECT_DELAY), once
ReconnectTimers == 1

\* scheduleReconnect(), called by the 'error' and the 'end' handler
ScheduleReconnect(p) ==
    \E ok \in BOOLEAN :
      /\ proc' = KillEffect(p, ReconnectKills(ffmpegCommand), ok)
      /\ ffmpegCommand' = 0
      /\ IF MustExit(browser, connected)
         THEN /\ exitCode' = 1
              /\ timers' = timers
         ELSE /\ timers' = timers + ReconnectTimers
              /\ exitCode' = exitCode
      /\ hist' = [hist EXCEPT
                    !.killRequested = @ \cup ReconnectKills(ffmpegCommand),
                    !.evConn = IF connected THEN @ + 1 ELSE @,
                    !.evDisc = @ \/ ~connected,
                    !.exitCause = IF MustExit(browser, connected) THEN "fatal" ELSE @]

ReconnectLogs ==
    {Log("INFO", <<"Restarting streaming components in 5s...">>)}
    \cup (IF MustExit(browser, connected)
          THEN {Log("WARN", <<"Browser disconnected. Full restart.">>)} ELSE {})

\* the mutant of RestartKeeps: the restart path drops the session
RestartDropsSession ==
    /\ browser' = FALSE /\ connected' = FALSE
    /\ UNCHANGED <<xvfbProcess, sink>>

\* scheduleReconnect and startStream assign neither browser nor xvfbProcess
\* and run no display or audio command
RestartKeeps == UNCHANGED <<browser, connected, xvfbProcess, sink>>

\* .on('error', err => ...) and .on('end', () => ...)
EncoderEvent(i) ==
    /\ Alive /\ proc[i] \in {"pendError", "pendEnd"}
    /\ logs' = logs \cup ReconnectLogs
                    \cup {IF proc[i] = "pendError"
                          THEN Log("ERROR", <<"Stream error: ", "<err.message>">>)
                          ELSE Log("WARN", <<"Stream ended.">>)}
    /\ ScheduleReconnect([proc EXCEPT ![i] = "done"])
    /\ RestartKeeps
    /\ UNCHANGED <<env, pc, fullUrl, nextId, closing>>

\* the restart timer set by scheduleReconnect fires
TimerFire ==
    /\ Alive /\ timers > 0
    /\ timers' = timers - 1
    /\ StartStream(hist)
    /\ RestartKeeps
    /\ UNCHANGED <<env, pc, fullUrl, closing, exitCode>>

\* the browser's connection drops (crash, or the close in progress); the
\* event loop does not turn between the last page step and main's startStream
BrowserDisconnect ==
    /\ Alive /\ browser /\ connected /\ pc # "stream"
    /\ connected' = FALSE
    /\ UNCHANGED <<env, pc, fullUrl, ffmpegCommand, browser, xvfbProcess, sink, proc,
                   nextId, timers, closing, exitCode, logs, hist>>

----------------------------------------------------------------------------
(* process.on('SIGINT', async () => ...) *)

\* if (xvfbProcess) xvfbProcess.kill(); process.exit(0);
KillXvfbAndExit(h) ==
    /\ exitCode' = 0
    /\ hist' = [h EXCEPT !.xvfbKillTried = xvfbProcess, !.exitCause = "stop"]

\* the handler up to its first await (or to process.exit when browser is
\* null); a signal is not delivered in the middle of a synchronous stretch
Sigint ==
    /\ Alive /\ pc \notin {"validate", "compose", "xvfb", "stream"}
    /\ hist.sigints < MaxSigint
    /\ logs' = logs \cup {Log("INFO", <<"Stopping...">>)}
    /\ \E killOk \in BOOLEAN :
         LET tgt == IF ffmpegCommand # 0 THEN {ffmpegCommand} ELSE {}
             h   == [hist EXCEPT !.sigints = @ + 1,
                                 !.killRequested = @ \cup tgt,
                                 !.killThrew = @ \/ (tgt # {} /\ ~killOk)]
         IN /\ proc' = KillEffect(proc, tgt, killOk)
            /\ IF browser
               THEN /\ closing' = closing + 1
                    /\ hist' = h
                    /\ exitCode' = exitCode
               ELSE /\ closing' = closing
                    /\ KillXvfbAndExit(h)
    /\ UNCHANGED <<env, pc, fullUrl, ffmpegCommand, browser, connected,
                   xvfbProcess, sink, nextId, timers>>

\* await browser.close() resolves; the handler runs to process.exit
CloseResolve ==
    /\ Alive /\ closing > 0
    /\ KillXvfbAndExit(hist)
    /\ closing' = closing - 1
    /\ connected' = FALSE
    /\ UNCHANGED <<env, pc, fullUrl, ffmpegCommand, browser, xvfbProcess, sink, proc,
                   nextId, timers, logs>>

\* await browser.close() rejects: nothing catches it, the rest of the handler
\* is skipped and the process dies of the unhandled rejection (exit status 1
\* under the image's node 18)
CloseReject ==
    /\ Alive /\ closing > 0
    /\ closing' = closing - 1
    /\ exitCode' = 1
    /\ hist' = [hist EXCEPT !.closeRejected = TRUE, !.exitCause = "rejection"]
    /\ UNCHANGED <<env, pc, fullUrl, ffmpegCommand, browser, connected,
                   xvfbProcess, sink, proc, nextId, timers, logs>>

----------------------------------------------------------------------------

Next ==
    \/ ValidateConfig
    \/ ComposeUrl
    \/ StartAudio
    \/ SpawnPulse
    \/ CreateSink
    \/ SetDefaultSink
    \/ SpawnXvfb
    \/ XvfbSettled
    \/ LaunchBrowser
    \/ PageStep
    \/ MainStartStream
    \/ \E i \in Ids : EncoderStart(i)
    \/ \E i \in Ids : EncoderStops(i)
    \/ \E i \in Ids : EncoderEvent(i)
    \/ TimerFire
    \/ BrowserDisconnect
    \/ Sigint
    \/ CloseResolve
    \/ CloseReject

Spec == Init /\ [][Next]_vars

\* the steps the event loop takes by itself: a resolved await of main
\* continues, an emitted encoder event is handled, a due timer fires, and the
\* awaited browser.close() settles.  An encoder that stops, a browser that
\* disconnects and a stop signal are up to the environment.
Continue ==
    \/ StartAudio \/ SpawnPulse \/ CreateSink \/ SetDefaultSink \/ SpawnXvfb
    \/ XvfbSettled \/ LaunchBrowser \/ PageStep \/ MainStartStream

SpecFair ==
    /\ Spec
    /\ WF_vars(Continue)
    /\ WF_vars(\E i \in Ids : EncoderStart(i))
    /\ WF_vars(\E i \in Ids : EncoderEvent(i))
    /\ WF_vars(TimerFire)
    /\ WF_vars(CloseResolve \/ CloseReject)

----------------------------------------------------------------------------
(* Claims *)

StartedSet == {i \in Ids : Started(i)}

\* C1: in every reachable state at most one EncodePipeline (instance created
\* by startStream) is started, whatever the sequence of encoder events, timer
\* firings and stop signals.
C1_AtMostOneStarted == Cardinality(StartedSet) <= 1

\* a restart has happened: the first instance is over and a later one runs
C1_Witness == nextId >= 2 /\ proc[1] = "done" /\ proc[nextId] = "running"

\* C2: every startStream call that follows an earlier one is preceded by a
\* kill() request on the instance the earlier call created.
C2_KillBeforeRestart == \A i \in 1..(nextId - 1) : i \in hist.killRequested

C2_Witness == nextId >= 2 /\ 1 \in hist.killRequested /\ Started(2)

\* C3: an encoder 'error'/'end' event handled while isConnected() is false
\* makes the process exit with a non-zero status (FailedFatal), however many
\* scoped restarts came before.
C3_DisconnectedIsFatal ==
    hist.evDisc => (exitCode \notin {-1, 0} /\ hist.exitCause = "fatal")

\* the fatal event came after a scoped restart
C3_Witness == hist.evDisc /\ nextId >= 2 /\ hist.evConn >= 1

\* C4 (as claimed): an encoder event handled while connected is always
\* followed by a new start attempt: the process never ends while a restart
\* it scheduled is still owed.
C4_RestartAlwaysFollows == ~Alive => timers = 0

\* C4 (amended): every encoder event handled while connected schedules exactly
\* one restart timer and never exits the process; each timer that fires makes
\* exactly one startStream call, so the start calls made plus the timers
\* pending equal the first start plus the events handled while connected.
C4_ExactlyOneRestartScheduled ==
    /\ nextId + timers = (IF pc = "idle" THEN 1 ELSE 0) + hist.evConn
    /\ (hist.exitCause = "fatal" => hist.evDisc)

\* an event was handled while connected and its restart was carried out
C4_Witness == hist.evConn = 1 /\ nextId = 2 /\ timers = 0 /\ Alive

\* C5: whenever the stop signal has been received and the process has exited,
\* its exit status is 0.
C5_StopExitsZero == (hist.sigints > 0 /\ ~Alive) => exitCode = 0

\* C6: a failed teardown step does not prevent the later steps: when the
\* session close fails, terminating the display server is still attempted.
C6_TeardownStepsIndependent ==
    (hist.closeRejected /\ xvfbProcess) => hist.xvfbKillTried

Names == {"WEBSITE_URL", "RTMP_URL", "RTMP_KEY"}

MissingNames == {n \in Names : Falsy(env[n])}

NamesIn(msg) == {msg[j] : j \in 1..Len(msg)} \cap Names

\* C7: with at least one of the three settings missing or empty, no bootstrap
\* step is ever run, the process exits non-zero, and the one line logged
\* names exactly the missing settings.
C7_ConfigErrorReported ==
    MissingNames # {} =>
        /\ pc = "validate" /\ ~xvfbProcess /\ ~browser /\ nextId = 0
        /\ \A l \in logs : l.type = "ERROR" /\ NamesIn(l.msg) = MissingNames
        /\ (~Alive => (exitCode = 1 /\ logs # {}))

C7_Witness == ~Alive /\ Cardinality(MissingNames) >= 2 /\ logs # {}

\* C8: no log line ever contains the value of RTMP_KEY.
C8_NoKeyInLogs ==
    \A l \in logs : Falsy(env.RTMP_KEY) \/ ~Contains(l.msg, env.RTMP_KEY)

\* C9: the composed destination is base + key when the base ends with the
\* separator, and base + separator + key otherwise.
C9_SeparatorRule ==
    fullUrl # Undefined =>
        LET b == env.RTMP_URL
            k == env.RTMP_KEY
            n == Len(fullUrl)
        IN /\ SubSeq(fullUrl, 1, Len(b)) = b
           /\ SubSeq(fullUrl, n - Len(k) + 1, n) = k
           /\ IF b[Len(b)] = Sep
              THEN n = Len(b) + Len(k)
              ELSE n = Len(b) + 1 + Len(k) /\ fullUrl[Len(b) + 1] = Sep

C9_Witness ==
    /\ env.RTMP_URL = <<"a">> /\ env.RTMP_KEY = <<"a", "a">>
    /\ fullUrl = <<"a", Sep, "a", "a">>

RECURSIVE LeadingSeps(_)
LeadingSeps(s) ==
    IF Len(s) > 0 /\ s[1] = Sep THEN 1 + LeadingSeps(Tail(s)) ELSE 0

RECURSIVE TrailingSeps(_)
TrailingSeps(s) ==
    IF Len(s) > 0 /\ s[Len(s)] = Sep
    THEN 1 + TrailingSeps(SubSeq(s, 1, Len(s) - 1)) ELSE 0

\* the separators standing between base and key in the composed destination:
\* those ending the part before the key plus those the key begins with
SepsAtJoin ==
    TrailingSeps(SubSeq(fullUrl, 1, Len(fullUrl) - Len(env.RTMP_KEY)))
    + LeadingSeps(env.RTMP_KEY)

\* C10 (as claimed): for every non-empty base and key, exactly one separator
\* stands between base and key.
C10_ExactlyOneSeparator == fullUrl # Undefined => SepsAtJoin = 1

\* C10 (amended): for every non-empty base that does not end in two or more
\* separators and every non-empty key that does not begin with a separator,
\* exactly one separator stands between base and key.
C10_OneSeparatorForPlainInputs ==
    (/\ fullUrl # Undefined
     /\ TrailingSeps(env.RTMP_URL) <= 1
     /\ LeadingSeps(env.RTMP_KEY) = 0) => SepsAtJoin = 1

C10_Witness ==
    /\ fullUrl = <<"a", Sep, "a">>
    /\ env.RTMP_URL = <<"a", Sep>> /\ env.RTMP_KEY = <<"a">>

----------------------------------------------------------------------------
(* Startup: main, startXvfb, startBrowser *)

\* the startup steps whose exception is caught where it is raised
CaughtSteps == {"killDaemon", "createSink", "setDefault", "click"}

\* C11 (as claimed): any exception raised during startup (display or audio
\* bootstrap, session launch, first encoder start) is fatal: no encoder is
\* started after it.
C11_AnyBootstrapExceptionFatal ==
    (hist.startupThrew \/ hist.failed \cap CaughtSteps # {}) => nextId = 0

\* C11 (amended): an exception that propagates to the catch block of main
\* ends the process at once with status 1; no encoder was started and no
\* restart is pending.
C11_PropagatedExceptionFatal ==
    hist.startupThrew => (exitCode = 1 /\ nextId = 0 /\ timers = 0)

C11_Witness ==
    /\ hist.startupThrew /\ browser /\ xvfbProcess
    /\ "addStyleTag" \in hist.failed

\* the startup steps begun so far
Done == {hist.steps[k] : k \in 1..Len(hist.steps)}

AudioSteps == {"killDaemon", "startDaemon", "createSink", "setDefault"}

----------------------------------------------------------------------------
(* Restart policy *)

\* the session is gone while main has handed over to the encoder handlers
DisconnectedWhileStreaming == Alive /\ pc = "idle" /\ browser /\ ~connected

\* C13: once the session is disconnected during streaming, the process
\* eventually exits with a non-zero status (unless a stop signal arrives).
C13_DisconnectLeadsToExit ==
    DisconnectedWhileStreaming ~> (exitCode = 1 \/ hist.sigints > 0)

----------------------------------------------------------------------------
(* Bootstrap failure policy *)

\* C14: when the display server fails to start, no encoder is ever started
\* and main never hands over to the encoder handlers.
C14_DisplayFailureFatal ==
    "spawnXvfb" \in hist.failed => (nextId = 0 /\ pc # "idle")

\* the log texts by which startXvfb reports the failure of an audio step
AudioFailureTexts(step) ==
    CASE step = "killDaemon"  -> {}
      [] step = "startDaemon" -> {<<"PulseAudio spawn error: ", "<err.message>">>,
                                  <<"PulseAudio setup failed: ", "<e.message>">>}
      [] step = "createSink"  -> {<<"VirtualSink may already exist: ", "<e.message>">>}
      [] step = "setDefault"  -> {<<"Failed to set default sink: ", "<e.message>">>}

Reported(step, type) ==
    \E l \in logs : l.type = type /\ l.msg \in AudioFailureTexts(step)

\* the step that was being taken when the process left startup
LastStep == hist.steps[Len(hist.steps)]

PostLoadSteps == {"click", "addStyleTag", "scrollBy"}

\* C16: the failure of a step after the page load (click, style injection,
\* scroll offset) does not abort the startup.
C16_PostLoadBestEffort ==
    hist.failed \cap PostLoadSteps # {} => ~hist.startupThrew /\ exitCode # 1

----------------------------------------------------------------------------
(* Supervisor state machine *)

\* the supervisor state of section 4.5, read off the program state.  An exit
\* made by the SIGINT handler is a stop, not a supervisor transition.
Supervisor ==
    CASE hist.exitCause \in {"config", "startup", "fatal"} -> "FailedFatal"
      [] hist.exitCause \in {"stop", "rejection"}          -> "Stopped"
      [] pc # "idle"                                       -> "Bootstrapping"
      [] timers > 0                                        -> "Restarting"
      [] OTHER                                             -> "Streaming"

SupervisorMoves ==
    {<<"Bootstrapping", "Streaming">>, <<"Streaming", "Restarting">>,
     <<"Restarting", "Streaming">>, <<"Restarting", "FailedFatal">>,
     <<"Bootstrapping", "FailedFatal">>}

\* this step is the handling of an encoder 'error' or 'end' event
EventHandled == hist'.evConn # hist.evConn \/ hist'.evDisc # hist.evDisc

\* C17: the supervisor state changes only along the five listed transitions
\* (the handler that finds the session disconnected goes from Streaming
\* through Restarting to FailedFatal in one step); Restarting is entered
\* only from Streaming by the handling of an encoder event; and no encoder
\* event is handled in Bootstrapping or Restarting.
C17_SupervisorTransitions ==
    [][/\ Supervisor' # Supervisor =>
            \/ <<Supervisor, Supervisor'>> \in SupervisorMoves
            \/ Supervisor' = "Stopped"
            \/ Supervisor = "Streaming" /\ Supervisor' = "FailedFatal" /\ EventHandled
       /\ (Supervisor' = "Restarting" /\ Supervisor # "Restarting") =>
            (Supervisor = "Streaming" /\ EventHandled)
       /\ EventHandled => Supervisor = "Streaming"]_vars

C17_Witness ==
    /\ Supervisor = "Streaming" /\ hist.evConn = 2
    /\ nextId = 3 /\ proc[3] = "running"

\* C18: once main has started the first encoder, the process exits with a
\* non-zero status only by handling an encoder event while the session is
\* disconnected, whatever the number of failures before.
C18_OnlyDisconnectIsFatal ==
    (pc = "idle" /\ exitCode \notin {-1, 0}) => hist.evDisc

----------------------------------------------------------------------------
(* Scoped restart *)

\* the number of times the display server was spawned
DisplaySpawns ==
    Cardinality({k \in 1..Len(hist.steps) : hist.steps[k] = "spawnXvfb"})

\* C19: the handling of an encoder event and the startStream call that
\* follows it leave the display server process, the audio sink and the
\* session as they were, and the display server was spawned exactly once.
C19_RestartKeepsEnvironment ==
    [][(pc = "idle" /\ (EventHandled \/ nextId' # nextId)) =>
          /\ UNCHANGED <<browser, connected, xvfbProcess, sink>>
          /\ xvfbProcess /\ DisplaySpawns = 1 /\ DisplaySpawns' = 1]_vars

C19_Witness ==
    /\ hist.evConn >= 1 /\ nextId >= 2 /\ proc[nextId] = "running"
    /\ browser /\ connected /\ xvfbProcess /\ sink = "default"
    /\ DisplaySpawns = 1

\* C20: the handling of an encoder event while the session is disconnected
\* ends the process with status 1 and leaves no restart timer pending; from
\* then on no startStream call is made and no timer is set.
C20_FatalIsTerminal ==
    [][/\ hist'.evDisc => (exitCode' = 1 /\ timers' = 0 /\ ffmpegCommand' = 0)
       /\ hist.evDisc => (nextId' = nextId /\ timers' = timers /\ proc' = proc)]_vars

C20_Witness ==
    /\ hist.evDisc /\ hist.exitCause = "fatal" /\ exitCode = 1
    /\ timers = 0 /\ nextId < MaxStarts

----------------------------------------------------------------------------
(* Page preparation order *)

\* the position of a step that was begun, in the order of the steps
Pos(step) == CHOOSE k \in 1..Len(hist.steps) : hist.steps[k] = step

\* every step of the chain that was begun was begun after its predecessor
InOrder(chain) ==
    \A k \in 2..Len(chain) :
        chain[k] \in Done =>
            (chain[k - 1] \in Done /\ Pos(chain[k - 1]) < Pos(chain[k]))

\* C21 (as claimed): after the page load the steps run in the order disable
\* caching, settle wait, click, style injection, scroll.
C21_PostLoadOrder ==
    InOrder(<<"goto", "setCacheEnabled", "settleWait", "click", "addStyleTag",
              "scrollBy">>)

\* C21 (amended): caching is disabled before the page load; after the load
\* come the hard refresh, the settle wait, the click, the style injection
\* and the scroll, in this order.
C21_CacheOffThenLoadThenAdjust ==
    InOrder(<<"setCacheEnabled", "goto", "reload", "waitForNavigation",
              "settleWait", "click", "addStyleTag", "scrollBy">>)

C21_Witness ==
    /\ PageStepNames \subseteq Done /\ LastStep = "scrollBy"
    /\ hist.failed \cap PageStepNames = {}

----------------------------------------------------------------------------
(* Crop geometry *)

\* C22: every encoder started, first or restarted, crops the rectangle of
\* width frameWidth - cropLeft and height frameHeight - cropTop - cropBottom
\* at origin (cropLeft, cropTop); the rectangle has positive width and
\* height, lies inside the captured frame, and is scaled to the frame size.
C22_CropRectangle ==
    \A k \in 1..Len(hist.pipelines) :
        LET v == hist.pipelines[k] IN
        /\ v.crop.w = SCREEN_WIDTH - CROP_LEFT
        /\ v.crop.h = SCREEN_HEIGHT - CROP_TOP - CROP_BOTTOM
        /\ v.crop.x = CROP_LEFT /\ v.crop.y = CROP_TOP
        /\ v.crop.w > 0 /\ v.crop.h > 0
        /\ v.crop.x >= 0 /\ v.crop.y >= 0
        /\ v.crop.x + v.crop.w <= v.capture.w
        /\ v.crop.y + v.crop.h <= v.capture.h
        /\ v.capture = [w |-> SCREEN_WIDTH, h |-> SCREEN_HEIGHT]
        /\ v.scale = v.capture

C22_Witness ==
    /\ Len(hist.pipelines) >= 2 /\ nextId = Len(hist.pipelines)
    /\ hist.pipelines[2].crop = [w |-> 1475, h |-> 670, x |-> 25, y |-> 150]

----------------------------------------------------------------------------
(* Restart timers and the encoder handle *)

\* the instances whose terminal event has been handled
Finished == {i \in Ids : proc[i] = "done"}

\* the restart timers set so far: those pending and those that have fired,
\* one for each start after the first
TimersSet == timers + (IF nextId > 0 THEN nextId - 1 ELSE 0)

----------------------------------------------------------------------------
(* Shutdown *)

\* C24: once SIGINT has been received, no encoder is started any more and
\* the process does not exit through the disconnected-session path.
C24_NoStartAfterStop ==
    hist.sigints > 0 => (~hist.startedAfterStop /\ hist.exitCause # "fatal")

\* C25: startStream is never called while the session is disconnected; in
\* particular a session that disconnects while a restart timer is pending
\* keeps that timer from starting an encoder.
C25_NeverStartDisconnected == ~hist.startedDisconnected

\* C26: the handle is null or the most recently started encoder; every
\* started encoder whose kill() has not been requested is the one the handle
\* refers to; and when the SIGINT handler has exited the process, no encoder
\* process is left running (unless a kill() call threw).
C26_HandleTracksEncoders ==
    /\ ffmpegCommand \in {0, nextId}
    /\ \A i \in Ids : (Started(i) /\ i \notin hist.killRequested) => ffmpegCommand = i
    /\ (hist.exitCause = "stop" /\ ~hist.killThrew) =>
           \A i \in Ids : proc[i] # "running"

====
